---- MODULE Spec2Model ----
(***************************************************************************)
(* Model of debesyla/domenai-cleanup:                                      *)
(*   src/src/domain_cleaner.py  (process_domain, the two label validators, *)
(*                               the clean_domains batch driver)           *)
(*   src/src/remove_domains.py  (the remove_domains set-difference tool)   *)
(*                                                                         *)
(* A Python str is a sequence of one-character strings: "lt" is            *)
(* <<"l","t">> and "" is <<>>.  Python's None is an empty option (<<>>)    *)
(* for a value and the string "None" for a reason.                         *)
(***************************************************************************)
EXTENDS Integers, Sequences, FiniteSets, TLC

VARIABLES
    \* process_domain applied to one raw value (SpecPD)
    raw, result, again, pd_pc,
    \* clean_domains (Spec)
    input, line_count, cleaned, errors, processed_count, skipped_count,
    pc, output, errors_txt,
    \* remove_domains (SpecRM)
    all_file, removees_file, excluded_domains, filtered_domains,
    rm_pos, rm_pc, rm_output

pd_vars == <<raw, result, again, pd_pc>>
cd_vars == <<input, line_count, cleaned, errors, processed_count,
             skipped_count, pc, output, errors_txt>>
rm_vars == <<all_file, removees_file, excluded_domains, filtered_domains,
             rm_pos, rm_pc, rm_output>>
vars == <<pd_vars, cd_vars, rm_vars>>

----------------------------------------------------------------------------
(* Characters.  The model's alphabet is ASCII; code points are Python's    *)
(* ord().                                                                  *)

UpperCase == <<"A","B","C","D","E","F","G","H","I","J","K","L","M",
               "N","O","P","Q","R","S","T","U","V","W","X","Y","Z">>
LowerCase == <<"a","b","c","d","e","f","g","h","i","j","k","l","m",
               "n","o","p","q","r","s","t","u","v","w","x","y","z">>
DigitChars == <<"0","1","2","3","4","5","6","7","8","9">>

Range(f) == {f[i] : i \in DOMAIN f}

UpperSet == Range(UpperCase)
LowerSet == Range(LowerCase)
DigitSet == Range(DigitChars)

IsUpper(c) == c \in UpperSet
IsLower(c) == c \in LowerSet
IsAlpha(c) == IsUpper(c) \/ IsLower(c)
IsDigit(c) == c \in DigitSet
\* \w of the re module: letters, digits, underscore
IsWord(c) == IsAlpha(c) \/ IsDigit(c) \/ c = "_"
\* str.strip() with no argument removes whitespace

IndexIn(tab, c) == CHOOSE i \in DOMAIN tab : tab[i] = c

ToLower == [c \in UpperSet |-> LowerCase[IndexIn(UpperCase, c)]]

LowerChar(c) == IF IsUpper(c) THEN ToLower[c] ELSE c

Ord(c) ==
    IF IsLower(c) THEN 96 + IndexIn(LowerCase, c)
    ELSE IF IsUpper(c) THEN 64 + IndexIn(UpperCase, c)
    ELSE IF IsDigit(c) THEN 47 + IndexIn(DigitChars, c)
    ELSE CASE c = "\t" -> 9  [] c = "\n" -> 10 [] c = "\r" -> 13
           [] c = " " -> 32  [] c = "#" -> 35  [] c = "-" -> 45
           [] c = "." -> 46  [] c = "/" -> 47  [] c = ":" -> 58
           [] c = "?" -> 63  [] c = "@" -> 64  [] c = "[" -> 91
           [] c = "]" -> 93  [] c = "_" -> 95

----------------------------------------------------------------------------
(* str methods *)

\* str.lower()
Lower(s) == [i \in 1..Len(s) |-> LowerChar(s[i])]

RECURSIVE LStrip(_, _)
\* str.lstrip(chars)
LStrip(s, chars) ==
    IF s # <<>> /\ Head(s) \in chars THEN LStrip(Tail(s), chars) ELSE s

RECURSIVE RStrip(_, _)
\* str.rstrip(chars)
RStrip(s, chars) ==
    IF s # <<>> /\ s[Len(s)] \in chars
    THEN RStrip(SubSeq(s, 1, Len(s) - 1), chars) ELSE s

Whitespace == {" ", "\t", "\n", "\r"}

\* str.strip()
Strip(s) == RStrip(LStrip(s, Whitespace), Whitespace)

\* str.startswith(p)
StartsWith(s, p) == Len(s) >= Len(p) /\ SubSeq(s, 1, Len(p)) = p

\* str.endswith(p)
EndsWith(s, p) ==
    Len(s) >= Len(p) /\ SubSeq(s, Len(s) - Len(p) + 1, Len(s)) = p

\* p in s
Contains(s, p) ==
    \E i \in 1..(Len(s) - Len(p) + 1) : SubSeq(s, i, i + Len(p) - 1) = p

\* position of the first character of s that is in chars, Len(s)+1 if none
FindAny(s, chars) ==
    LET hits == {i \in 1..Len(s) : s[i] \in chars}
    IN  IF hits = {} THEN Len(s) + 1
        ELSE CHOOSE i \in hits : \A j \in hits : i <= j

RECURSIVE Split(_, _)
\* str.split(sep) for a one-character separator: "" splits to [""]
Split(s, sep) ==
    LET i == FindAny(s, {sep})
    IN  IF i > Len(s) THEN <<s>>
        ELSE <<SubSeq(s, 1, i - 1)>> \o Split(SubSeq(s, i + 1, Len(s)), sep)

RECURSIVE Join(_, _)
\* sep.join(parts)
Join(parts, sep) ==
    IF parts = <<>> THEN <<>>
    ELSE IF Len(parts) = 1 THEN parts[1]
    ELSE parts[1] \o sep \o Join(Tail(parts), sep)

Dot == <<".">>

----------------------------------------------------------------------------
(* domain_cleaner.py *)

None == "None"
NoneValue == <<>>
Some(s) == <<s>>

GOV_DOMAINS == { <<"l","r","v">>, <<"e","d","u">>, <<"m","i","l">> }
GOV_SUFFIXES == { <<"l","r","v",".","l","t">>, <<"e","d","u",".","l","t">>,
                  <<"m","i","l",".","l","t">>, <<"g","o","v",".","l","t">> }

MaxLabelLen == 63

RECURSIVE LengthLoop(_)
LengthLoop(labels) ==
    IF labels = <<>> THEN [valid |-> TRUE, reason |-> None]
    ELSE IF Len(Head(labels)) = 1
         THEN [valid |-> FALSE, reason |-> "single character label"]
    ELSE IF Len(Head(labels)) > MaxLabelLen
         THEN [valid |-> FALSE, reason |-> "label exceeds 63 characters"]
    ELSE LengthLoop(Tail(labels))

is_valid_domain_length(domain) == LengthLoop(Split(domain, "."))

RECURSIVE HyphenLoop(_)
HyphenLoop(labels) ==
    IF labels = <<>> THEN [valid |-> TRUE, reason |-> None]
    ELSE IF StartsWith(Head(labels), <<"-">>)
         THEN [valid |-> FALSE, reason |-> "hyphen at start of label"]
    ELSE IF EndsWith(Head(labels), <<"-">>)
         THEN [valid |-> FALSE, reason |-> "hyphen at end of label"]
    ELSE IF Contains(Head(labels), <<"-","-">>)
         THEN [valid |-> FALSE, reason |-> "consecutive hyphens"]
    ELSE HyphenLoop(Tail(labels))

is_valid_hyphen_rules(domain) == HyphenLoop(Split(domain, "."))

\* re.match(r'^[a-zA-Z]+://', s): the number of leading ASCII letters
AlphaPrefixLen(s) ==
    FindAny(s, {s[i] : i \in 1..Len(s)} \ (UpperSet \cup LowerSet)) - 1

IsUrl(s) ==
    LET k == AlphaPrefixLen(s)
    IN  k >= 1 /\ Len(s) >= k + 3
               /\ SubSeq(s, k + 1, k + 3) = <<":", "/", "/">>

\* urllib.parse.urlparse(s).netloc for an s that IsUrl: the text between
\* "scheme://" and the first of "/", "?", "#" (tab, CR and LF are removed
\* from the URL first)
Netloc(s) ==
    LET u    == SelectSeq(s, LAMBDA c : c \notin {"\t", "\r", "\n"})
        rest == SubSeq(u, AlphaPrefixLen(u) + 4, Len(u))
    IN  SubSeq(rest, 1, FindAny(rest, {"/", "?", "#"}) - 1)

\* urlsplit raises ValueError("Invalid IPv6 URL") when the netloc holds one
\* of "[" and "]" without the other
UrlParseRaises(s) ==
    LET n == Netloc(s)
    IN  ("[" \in Range(n)) # ("]" \in Range(n))

AllDigits(s) == s # <<>> /\ \A i \in 1..Len(s) : IsDigit(s[i])

\* re.match(r'^\d+(\.\d+){3}$', s)
IsIpAddress(s) ==
    LET groups == Split(s, ".")
    IN  Len(groups) = 4 /\ \A i \in 1..4 : AllDigits(groups[i])

\* re.match(r'^[\w\-.]+$', s, re.UNICODE)
HasOnlyDomainChars(s) ==
    s # <<>> /\ \A i \in 1..Len(s) : IsWord(s[i]) \/ s[i] \in {"-", "."}

\* The public suffix list tldextract resolves against, as label sequences:
\* its two .lt rules ("lt", "gov.lt") and one foreign rule ("gov").
PublicSuffixes ==
    { <<"l","t">>, <<"g","o","v",".","l","t">>, <<"g","o","v">> }

\* tldextract's suffix_index(labels): the index (0-based) of the first label
\* of the longest public suffix ending the name, Len(labels) if none
SuffixIndex(labels) ==
    LET n    == Len(labels)
        hits == {i \in 0..(n - 1) :
                    Join(SubSeq(labels, i + 1, n), Dot) \in PublicSuffixes}
    IN  IF hits = {} THEN n
        ELSE CHOOSE i \in hits : \A j \in hits : i <= j

\* tldextract.extract(host) for a host of word characters, "-" and ".":
\* trailing dots dropped, split at ".", suffix = labels from suffix_index,
\* domain = the label before it, subdomain = the labels before that
extract(host) ==
    LET netloc == RStrip(host, {"."})
        labels == Split(netloc, ".")
        n      == Len(labels)
        si     == SuffixIndex(labels)
    IN  [ subdomain |-> IF si >= 2 THEN Join(SubSeq(labels, 1, si - 1), Dot)
                        ELSE <<>>,
          domain    |-> IF si >= 1 THEN labels[si] ELSE <<>>,
          suffix    |-> IF si # n THEN Join(SubSeq(labels, si + 1, n), Dot)
                        ELSE <<>> ]

\* a return value of process_domain, or the exception it lets escape
Return(d, r) == [raised |-> FALSE, domain |-> d, reason |-> r]
Raised == [raised |-> TRUE, domain |-> NoneValue, reason |-> "ValueError"]

\* process_domain, lines 103-127: from the raw line to the lowercase host
\* handed to the resolver, or the rejection that ends the call early
PreResolve(r) ==
    LET stripped == Strip(r)
        nodots   == RStrip(stripped, {"."})
        url      == IsUrl(nodots)
        hostpart == IF url /\ Netloc(nodots) # <<>> THEN Netloc(nodots)
                    ELSE nodots
        nowww    == IF StartsWith(Lower(hostpart), <<"w","w","w",".">>)
                    THEN SubSeq(hostpart, 5, Len(hostpart)) ELSE hostpart
    IN  IF stripped = <<>>
            THEN [ok |-> FALSE, raised |-> FALSE, host |-> <<>>,
                  reason |-> "empty line"]
        ELSE IF url /\ UrlParseRaises(nodots)
            THEN [ok |-> FALSE, raised |-> TRUE, host |-> <<>>,
                  reason |-> "ValueError"]
        ELSE IF IsIpAddress(nowww)
            THEN [ok |-> FALSE, raised |-> FALSE, host |-> <<>>,
                  reason |-> "ip address"]
        ELSE IF ~HasOnlyDomainChars(nowww)
            THEN [ok |-> FALSE, raised |-> FALSE, host |-> <<>>,
                  reason |-> "invalid characters"]
        ELSE [ok |-> TRUE, raised |-> FALSE, host |-> Lower(nowww),
              reason |-> None]

\* Validate without the length rule
ValidateHyphenOnly(domain) ==
    IF ~is_valid_hyphen_rules(domain).valid
        THEN Return(NoneValue, is_valid_hyphen_rules(domain).reason)
    ELSE Return(Some(domain), None)

\* Validate with the hyphen rule evaluated before the length rule
ValidateHyphenFirst(domain) ==
    IF ~is_valid_hyphen_rules(domain).valid
        THEN Return(NoneValue, is_valid_hyphen_rules(domain).reason)
    ELSE IF ~is_valid_domain_length(domain).valid
        THEN Return(NoneValue, is_valid_domain_length(domain).reason)
    ELSE Return(Some(domain), None)

\* process_domain, lines 139-145 and 151-157: both validators, length first
Validate(domain) ==
    IF ~is_valid_domain_length(domain).valid
        THEN Return(NoneValue, is_valid_domain_length(domain).reason)
    ELSE IF ~is_valid_hyphen_rules(domain).valid
        THEN Return(NoneValue, is_valid_hyphen_rules(domain).reason)
    ELSE Return(Some(domain), None)

\* IsGovernment without the second-level names lrv, edu, mil
IsGovernmentSuffixOnly(ext) == ext.suffix \in GOV_SUFFIXES

\* line 136: the government test
IsGovernment(ext) ==
    \/ ext.suffix \in GOV_SUFFIXES
    \/ (ext.suffix = <<"l","t">> /\ ext.domain \in GOV_DOMAINS)

\* Classify with the commercial branch validating before it looks at the
\* subdomain
ClassifyValidateFirst(ext) ==
    LET domain == ext.domain \o Dot \o ext.suffix
    IN  IF ext.domain = <<>> \/ ext.suffix = <<>>
            THEN Return(NoneValue, "invalid domain/suffix")
        ELSE IF IsGovernment(ext)
            THEN Validate(IF ext.subdomain # <<>>
                          THEN ext.subdomain \o Dot \o domain ELSE domain)
        ELSE IF ext.suffix = <<"l","t">>
            THEN LET full == IF ext.subdomain # <<>>
                             THEN ext.subdomain \o Dot \o domain ELSE domain
                 IN  IF Validate(full).domain = NoneValue
                         THEN Validate(full)
                     ELSE IF ext.subdomain # <<>>
                         THEN Return(NoneValue, "non-govt subdomain")
                     ELSE Validate(domain)
        ELSE Return(NoneValue, "non-.lt domain")

\* process_domain, lines 130-159: the policy applied to the resolved host
Classify(ext) ==
    LET domain == ext.domain \o Dot \o ext.suffix
    IN  IF ext.domain = <<>> \/ ext.suffix = <<>>
            THEN Return(NoneValue, "invalid domain/suffix")
        ELSE IF IsGovernment(ext)
            THEN Validate(IF ext.subdomain # <<>>
                          THEN ext.subdomain \o Dot \o domain ELSE domain)
        ELSE IF ext.suffix = <<"l","t">>
            THEN IF ext.subdomain # <<>>
                 THEN Return(NoneValue, "non-govt subdomain")
                 ELSE Validate(domain)
        ELSE Return(NoneValue, "non-.lt domain")

\* process_domain(raw) for a str raw (the `raw is None` guard of line 100
\* is false for every str)
process_domain(r) ==
    LET p == PreResolve(r)
    IN  IF p.raised THEN Raised
        ELSE IF ~p.ok THEN Return(NoneValue, p.reason)
        ELSE Classify(extract(p.host))

----------------------------------------------------------------------------
(* SpecPD: process_domain applied to one raw value, then to the domain it  *)
(* returned.  The raw values are the concatenations of up to MaxTokens     *)
(* tokens, and the hosts made of up to MaxLabels labels before a base.     *)

Tokens ==
    { <<" ">>, <<".">>, <<"-">>, <<"a","b">>, <<"1",".","1">>,
      <<"W","W","W",".">>, <<"l","r","v">>, <<".","l","t">>,
      <<"h","t","t","p",":","/","/">>, <<"/">> }

MaxTokens == 4

\* the sequences of at most n elements of S
SeqsUpTo(S, n) == UNION {[1..k -> S] : k \in 0..n}

RECURSIVE Concat(_)
\* the parts written one after the other
Concat(parts) ==
    IF Len(parts) = 0 THEN <<>>
    ELSE parts[1] \o Concat(SubSeq(parts, 2, Len(parts)))

A63 == [i \in 1..MaxLabelLen |-> "a"]

Labels ==
    { <<>>, <<"a">>, <<"a","b">>, <<"-","a","b">>, <<"a","-","-">>,
      <<"a","-","-","b">>, <<"-","-">>, <<"w","w","w">>, A63, A63 \o <<"a">> }

Bases ==
    { <<"l","r","v",".","l","t">>, <<"g","o","v",".","l","t">>,
      <<"l","t">>, <<"g","o","v">> }

MaxLabels == 3

\* the labels, then the base, joined by dots
Host(labels, base) == Join(labels \o <<base>>, Dot)

NotRun == [raised |-> FALSE, domain |-> NoneValue, reason |-> "not run"]

IdleCD ==
    /\ input = <<>> /\ line_count = 0 /\ cleaned = {} /\ errors = <<>>
    /\ processed_count = 0 /\ skipped_count = 0 /\ pc = "idle"
    /\ output = <<>> /\ errors_txt = <<>>

IdlePD ==
    /\ raw = <<>> /\ result = NotRun /\ again = NotRun /\ pd_pc = "idle"

IdleRM ==
    /\ all_file = <<>> /\ removees_file = <<>> /\ excluded_domains = {}
    /\ filtered_domains = <<>> /\ rm_pos = 0 /\ rm_pc = "idle"
    /\ rm_output = <<>>

InitPD ==
    /\ \/ \E q \in SeqsUpTo(Tokens, MaxTokens) : raw = Concat(q)
       \/ \E q \in SeqsUpTo(Labels, MaxLabels), b \in Bases : raw = Host(q, b)
    /\ result = NotRun
    /\ again = NotRun
    /\ pd_pc = "call"
    /\ IdleCD /\ IdleRM

\* domain, reason = process_domain(raw)
Call ==
    /\ pd_pc = "call"
    /\ result' = process_domain(raw)
    /\ pd_pc' = "returned"
    /\ UNCHANGED <<raw, again, cd_vars, rm_vars>>

\* process_domain applied to the domain it has just accepted
CallAgain ==
    /\ pd_pc = "returned"
    /\ ~result.raised /\ result.domain # NoneValue
    /\ again' = process_domain(result.domain[1])
    /\ pd_pc' = "again"
    /\ UNCHANGED <<raw, result, cd_vars, rm_vars>>

NextPD == Call \/ CallAgain

SpecPD == InitPD /\ [][NextPD]_vars

----------------------------------------------------------------------------
(* Spec: clean_domains over an input file.  A file is a sequence of lines, *)
(* each ending in "\n" except possibly the last.  The existence check of   *)
(* lines 14-16 has passed; the progress print of lines 27-28 is not part   *)
(* of the state.                                                           *)

NL == <<"\n">>

LineTexts ==
    { <<>>,
      <<" ">>,
      <<"h","t","t","p","s",":","/","/","w","w","w",".","L","R","V",".",
        "l","t","/","p","a","g","e">>,
      <<" ","a","b",".","l","t">>,
      <<"a","b",".","l","t">>,
      <<"a","b",".","a","b",".","l","t"," ">>,
      <<"a",".","l","t">>,
      <<"h","t","t","p",":","/","/","[">>,
      <<"a","b",".","l","r","v",".","l","t",".">> }

MaxLines == 3

\* the lines a text file yields: every line keeps its "\n", the last one
\* only if the file ends with a newline
FileOf(q, final_newline) ==
    [i \in 1..Len(q) |->
        IF i < Len(q) \/ final_newline THEN q[i] \o NL ELSE q[i]]

\* file is the content of a text file of at most n lines with these texts
IsFile(file, texts, n) ==
    \E q \in SeqsUpTo(texts, n), final_newline \in BOOLEAN :
        /\ final_newline \/ (Len(q) > 0 /\ q[Len(q)] # <<>>)
        /\ file = FileOf(q, final_newline)

\* a < b for two str, by code point
StrLess(a, b) ==
    LET n    == IF Len(a) < Len(b) THEN Len(a) ELSE Len(b)
        diff == {i \in 1..n : a[i] # b[i]}
    IN  IF diff = {} THEN Len(a) < Len(b)
        ELSE LET k == CHOOSE i \in diff : \A j \in diff : i <= j
             IN  Ord(a[k]) < Ord(b[k])

RECURSIVE sortedDescending(_)
\* sorted with the comparison reversed
sortedDescending(S) ==
    IF S = {} THEN <<>>
    ELSE LET m == CHOOSE x \in S : \A y \in S \ {x} : StrLess(y, x)
         IN  <<m>> \o sortedDescending(S \ {m})

RECURSIVE sorted(_)
\* sorted(set of str)
sorted(S) ==
    IF S = {} THEN <<>>
    ELSE LET m == CHOOSE x \in S : \A y \in S \ {x} : StrLess(x, y)
         IN  <<m>> \o sorted(S \ {m})

\* RawLine trimming all surrounding whitespace
RawLineStripped(line) == Strip(line)

\* line 30: raw_line = line.rstrip("\n")
RawLine(line) == RStrip(line, {"\n"})

\* line 33: not raw_line.strip()
IsBlank(raw_line) == Strip(raw_line) = <<>>

\* `if domain:` of line 38: neither None nor ""
Truthy(d) == d # NoneValue /\ d[1] # <<>>

\* line 42: the tuple appended to errors
ErrorRecord(n, raw_line, reason) == <<n, raw_line, reason>>

\* line 57: f"Line {line_num}: {reason} | {line_val}\n", as its parts
ErrorLine(e) == <<"Line ", e[1], ": ", e[3], " | ", e[2], "\n">>

Init ==
    /\ IsFile(input, LineTexts, MaxLines)
    /\ line_count = 0
    /\ cleaned = {}
    /\ errors = <<>>
    /\ processed_count = 0
    /\ skipped_count = 0
    /\ pc = "read"
    /\ output = <<>>
    /\ errors_txt = <<>>
    /\ IdlePD /\ IdleRM

\* one iteration of the loop of lines 25-42
ReadLine ==
    /\ pc = "read"
    /\ line_count < Len(input)
    /\ line_count' = line_count + 1
    /\ LET raw_line == RawLine(input[line_count + 1])
           r        == process_domain(raw_line)
       IN  IF IsBlank(raw_line)
               THEN UNCHANGED <<cleaned, errors, processed_count,
                                skipped_count, pc>>
           ELSE IF r.raised
               \* the exception leaves clean_domains: nothing is written
               THEN /\ processed_count' = processed_count + 1
                    /\ pc' = "raised"
                    /\ UNCHANGED <<cleaned, errors, skipped_count>>
           ELSE IF Truthy(r.domain)
               THEN /\ processed_count' = processed_count + 1
                    /\ cleaned' = cleaned \cup {Lower(r.domain[1])}
                    /\ UNCHANGED <<errors, skipped_count, pc>>
           ELSE /\ processed_count' = processed_count + 1
                /\ skipped_count' = skipped_count + 1
                /\ errors' = Append(errors,
                                ErrorRecord(line_count', raw_line, r.reason))
                /\ UNCHANGED <<cleaned, pc>>
    /\ UNCHANGED <<input, output, errors_txt, pd_vars, rm_vars>>

\* lines 45-48, once the input is consumed
WriteOutput ==
    /\ pc = "read"
    /\ line_count = Len(input)
    /\ output' = [i \in 1..Cardinality(cleaned) |-> sorted(cleaned)[i] \o NL]
    /\ pc' = "write_errors"
    /\ UNCHANGED <<input, line_count, cleaned, errors, processed_count,
                   skipped_count, errors_txt, pd_vars, rm_vars>>

\* lines 51-57
WriteErrors ==
    /\ pc = "write_errors"
    /\ errors_txt' =
        LET kept == SelectSeq(errors, LAMBDA e : e[3] # "empty line")
        IN  [i \in 1..Len(kept) |-> ErrorLine(kept[i])]
    /\ pc' = "done"
    /\ UNCHANGED <<input, line_count, cleaned, errors, processed_count,
                   skipped_count, output, pd_vars, rm_vars>>

Next == ReadLine \/ WriteOutput \/ WriteErrors

Spec == Init /\ [][Next]_vars

----------------------------------------------------------------------------
(* SpecRM: remove_domains over a master list and a blocklist, both         *)
(* present (lines 18-24).                                                  *)

RmTexts ==
    { <<>>,
      <<"a","b",".","l","t">>,
      <<" ","A","B",".","l","t"," ">>,
      <<"l","r","v",".","l","t">> }

MaxRmLines == 2

\* RmDomain removing only the line's newline
RmDomainUntrimmed(line) == RStrip(line, {"\n"})

\* lines 34 and 45: domain = line.strip()
RmDomain(line) == Strip(line)

InitRM ==
    /\ IsFile(all_file, RmTexts, MaxRmLines)
    /\ IsFile(removees_file, RmTexts, MaxRmLines)
    /\ excluded_domains = {}
    /\ filtered_domains = <<>>
    /\ rm_pos = 0
    /\ rm_pc = "load"
    /\ rm_output = <<>>
    /\ IdlePD /\ IdleCD

\* one iteration of the loop of lines 33-36
LoadRemovee ==
    /\ rm_pc = "load"
    /\ rm_pos < Len(removees_file)
    /\ rm_pos' = rm_pos + 1
    /\ LET domain == RmDomain(removees_file[rm_pos + 1])
       IN  excluded_domains' =
               IF domain # <<>> THEN excluded_domains \cup {domain}
               ELSE excluded_domains
    /\ UNCHANGED <<all_file, removees_file, filtered_domains, rm_pc,
                   rm_output, pd_vars, cd_vars>>

\* lines 42-43: the blocklist is loaded, the master list is opened
OpenAll ==
    /\ rm_pc = "load"
    /\ rm_pos = Len(removees_file)
    /\ filtered_domains' = <<>>
    /\ rm_pos' = 0
    /\ rm_pc' = "filter"
    /\ UNCHANGED <<all_file, removees_file, excluded_domains, rm_output,
                   pd_vars, cd_vars>>

\* one iteration of the loop of lines 44-47
FilterLine ==
    /\ rm_pc = "filter"
    /\ rm_pos < Len(all_file)
    /\ rm_pos' = rm_pos + 1
    /\ LET domain == RmDomain(all_file[rm_pos + 1])
       IN  filtered_domains' =
               IF domain # <<>> /\ domain \notin excluded_domains
               THEN Append(filtered_domains, domain)
               ELSE filtered_domains
    /\ UNCHANGED <<all_file, removees_file, excluded_domains, rm_pc,
                   rm_output, pd_vars, cd_vars>>

\* lines 53-55
WriteFiltered ==
    /\ rm_pc = "filter"
    /\ rm_pos = Len(all_file)
    /\ rm_output' = [i \in 1..Len(filtered_domains) |->
                        filtered_domains[i] \o NL]
    /\ rm_pc' = "done"
    /\ UNCHANGED <<all_file, removees_file, excluded_domains,
                   filtered_domains, rm_pos, pd_vars, cd_vars>>

NextRM == LoadRemovee \/ OpenAll \/ FilterLine \/ WriteFiltered

SpecRM == InitRM /\ [][NextRM]_vars

----------------------------------------------------------------------------
(* Properties *)

LT == <<"l","t">>
DotLT == <<".","l","t">>

LengthReasons == {"single character label", "label exceeds 63 characters"}
HyphenReasons == {"hyphen at start of label", "hyphen at end of label",
                  "consecutive hyphens"}

PassesBoth(d) ==
    is_valid_domain_length(d).valid /\ is_valid_hyphen_rules(d).valid

ResolvesTo(ext) == ext.domain # <<>> /\ ext.suffix # <<>>

GovernmentQualified(ext) ==
    \/ ext.suffix \in { <<"l","r","v",".","l","t">>,
                        <<"e","d","u",".","l","t">>,
                        <<"m","i","l",".","l","t">>,
                        <<"g","o","v",".","l","t">> }
    \/ /\ ext.suffix = LT
       /\ ext.domain \in { <<"l","r","v">>, <<"e","d","u">>, <<"m","i","l">> }

\* subdomain + "." + domain + "." + suffix, or domain + "." + suffix
Candidate(ext) ==
    IF ext.subdomain # <<>>
    THEN ext.subdomain \o Dot \o ext.domain \o Dot \o ext.suffix
    ELSE ext.domain \o Dot \o ext.suffix

\* P holds of the resolved host of the raw value, when process_domain has
\* returned and got as far as resolving it
OfResolved(P(_)) ==
    /\ pd_pc \in {"returned", "again"}
    /\ LET p == PreResolve(raw)
       IN  p.ok /\ LET ext == extract(p.host)
                   IN  ResolvesTo(ext) /\ P(ext)

\* P holds of every resolved host process_domain has returned for
ForResolved(P(_)) ==
    pd_pc \in {"returned", "again"} =>
        LET p == PreResolve(raw)
        IN  p.ok => LET ext == extract(p.host)
                    IN  ResolvesTo(ext) => P(ext)

Returned == pd_pc \in {"returned", "again"}

Accepted(res) == ~res.raised /\ res.domain # NoneValue

\* C1: every string of the result set, at every point of the run and in
\* the written output, ends in ".lt" and passes both label validators.
C1_ResultSetValid ==
    /\ \A d \in cleaned : EndsWith(d, DotLT) /\ PassesBoth(d)
    /\ \A i \in DOMAIN output :
          LET d == SubSeq(output[i], 1, Len(output[i]) - 1)
          IN  output[i] = d \o NL /\ EndsWith(d, DotLT) /\ PassesBoth(d)

C1_Witness ==
    /\ pc = "done"
    /\ Cardinality(cleaned) >= 2
    /\ Len(output) = Cardinality(cleaned)
    /\ Len(errors) >= 1

\* a line as read, without its trailing newline
WithoutNewline(line) ==
    IF line # <<>> /\ line[Len(line)] = "\n"
    THEN SubSeq(line, 1, Len(line) - 1) ELSE line

OnlyWhitespace(s) == \A i \in 1..Len(s) : s[i] \in {" ", "\t", "\r", "\n"}

RecordsOf(n) == {k \in DOMAIN errors : errors[k][1] = n}

\* C2: every non-blank line read so far has exactly one outcome, its
\* canonical domain in the result set or exactly one rejection record with
\* its line number and raw text, and the run goes on; a blank line has
\* neither, and the two counters count exactly the non-blank lines and the
\* rejection records.
C2_ExactlyOneOutcome ==
    /\ \A n \in 1..line_count :
          LET raw_line == WithoutNewline(input[n])
              res      == process_domain(raw_line)
              inserted == Accepted(res) /\ Lower(res.domain[1]) \in cleaned
              recorded == /\ Cardinality(RecordsOf(n)) = 1
                          /\ \A k \in RecordsOf(n) : errors[k][2] = raw_line
          IN  IF OnlyWhitespace(raw_line)
              THEN RecordsOf(n) = {}
              ELSE /\ inserted \/ recorded
                   /\ ~(inserted /\ recorded)
                   /\ inserted => RecordsOf(n) = {}
    /\ processed_count =
          Cardinality({n \in 1..line_count :
                          ~OnlyWhitespace(WithoutNewline(input[n]))})
    /\ skipped_count = Len(errors)

\* C3: a host resolving government-qualified is accepted as
\* [subdomain.]domain.suffix exactly when that candidate passes both
\* validators, and is otherwise rejected with a validator's reason, never
\* with "non-govt subdomain".
C3_GovernmentBranch ==
    LET Holds(ext) ==
            GovernmentQualified(ext) =>
                LET cand == Candidate(ext)
                IN  IF PassesBoth(cand)
                    THEN result = Return(Some(cand), None)
                    ELSE /\ ~result.raised
                         /\ result.domain = NoneValue
                         /\ result.reason \in LengthReasons \cup HyphenReasons
    IN  ForResolved(Holds)

C3_Witness ==
    LET Case(ext) ==
            /\ GovernmentQualified(ext)
            /\ ext.subdomain # <<>>
            /\ result = Return(Some(ext.subdomain \o Dot \o ext.domain
                                        \o Dot \o ext.suffix), None)
    IN  OfResolved(Case)

\* C4: a host resolving under "lt" that is not government-qualified is
\* rejected with "non-govt subdomain" whenever it has a subdomain, whatever
\* its labels look like; without one it is accepted as domain.lt exactly
\* when that passes both validators.  A host resolving under any other
\* suffix that is no government suffix is rejected with "non-.lt domain".
C4_CommercialBranch ==
    LET Holds(ext) ==
            ~GovernmentQualified(ext) =>
                IF ext.suffix = LT
                THEN IF ext.subdomain # <<>>
                     THEN result = Return(NoneValue, "non-govt subdomain")
                     ELSE IF PassesBoth(ext.domain \o DotLT)
                          THEN result = Return(Some(ext.domain \o DotLT), None)
                          ELSE /\ ~result.raised
                               /\ result.domain = NoneValue
                               /\ result.reason \in
                                      LengthReasons \cup HyphenReasons
                ELSE result = Return(NoneValue, "non-.lt domain")
    IN  ForResolved(Holds)

C4_Witness ==
    LET Case(ext) ==
            /\ ~GovernmentQualified(ext)
            /\ ext.suffix = LT
            /\ ext.subdomain # <<>>
            /\ ~PassesBoth(Candidate(ext))
            /\ result = Return(NoneValue, "non-govt subdomain")
    IN  OfResolved(Case)

WordOrHyphen(c) ==
    \/ c \in Range(LowerCase) \/ c \in Range(UpperCase)
    \/ c \in Range(DigitChars) \/ c \in {"_", "-"}

\* C5: every domain process_domain accepts is a dot-separated sequence of
\* labels of word characters and hyphens, each 2 to 63 characters long.
C5_LabelsWellFormed ==
    (Returned /\ Accepted(result)) =>
        LET labels == Split(result.domain[1], ".")
        IN  \A i \in DOMAIN labels :
               /\ Len(labels[i]) >= 2
               /\ Len(labels[i]) <= 63
               /\ \A j \in DOMAIN labels[i] : WordOrHyphen(labels[i][j])

\* C6: the rejection records are in input order, their line numbers
\* strictly increasing, each the 1-based position of its line in the input
\* and each carrying that line without its newline; the error log holds one
\* line per record, in the same order.
C6_ErrorsInInputOrder ==
    /\ \A k \in DOMAIN errors :
          /\ errors[k][1] \in 1..line_count
          /\ errors[k][2] = WithoutNewline(input[errors[k][1]])
          /\ k > 1 => errors[k - 1][1] < errors[k][1]
    /\ pc = "done" =>
          /\ Len(errors_txt) = Len(errors)
          /\ \A k \in DOMAIN errors :
                errors_txt[k] = <<"Line ", errors[k][1], ": ", errors[k][3],
                                  " | ", errors[k][2], "\n">>

C6_Witness ==
    /\ pc = "done"
    /\ Len(errors_txt) = 2
    /\ OnlyWhitespace(input[1])
    /\ errors[1][1] = 2
    /\ errors[2][1] = 3
    /\ errors[1][2] # Strip(errors[1][2])

\* the canonical domains of a set of raw lines
CanonicalSet(S) ==
    {Lower(process_domain(l).domain[1]) :
        l \in {x \in S : Accepted(process_domain(x))}}

NonBlankLines ==
    {WithoutNewline(input[n]) : n \in DOMAIN input} \ {l \in
        {WithoutNewline(input[n]) : n \in DOMAIN input} : OnlyWhitespace(l)}

\* C7: the written primary output is strictly ascending by code point and
\* holds exactly the canonical domains of the set of non-blank input lines,
\* so it is the same for every order and repetition of those lines.
C7_OutputOfLineSet ==
    pc \in {"write_errors", "done"} =>
        /\ \A i \in 1..(Len(output) - 1) : StrLess(output[i], output[i + 1])
        /\ Range(output) = {d \o NL : d \in CanonicalSet(NonBlankLines)}

C7_Witness ==
    /\ pc = "done"
    /\ Len(input) = 3
    /\ processed_count = 3
    /\ skipped_count = 0
    /\ Len(output) = 2
    /\ output[2] = Lower(process_domain(WithoutNewline(input[1])).domain[1])
                      \o NL

BlockList == {Strip(removees_file[i]) : i \in DOMAIN removees_file} \ {<<>>}

MasterTrimmed == [i \in DOMAIN all_file |-> Strip(all_file[i])]

\* C8: remove_domains writes, in master-list order and without
\* deduplication, exactly the trimmed non-empty master lines that equal no
\* trimmed non-empty blocklist line.
C8_FilteredMaster ==
    rm_pc = "done" =>
        LET kept == SelectSeq(MasterTrimmed,
                              LAMBDA d : d # <<>> /\ d \notin BlockList)
        IN  rm_output = [i \in 1..Len(kept) |-> kept[i] \o NL]

C8_Witness ==
    /\ rm_pc = "done"
    /\ Len(all_file) = 2
    /\ Len(rm_output) = 1
    /\ Strip(all_file[1]) \in BlockList
    /\ all_file[2] # rm_output[1]

LengthBad(l) == Len(l) = 1 \/ Len(l) > 63

HyphenBad(l) ==
    \/ (l # <<>> /\ l[1] = "-")
    \/ (l # <<>> /\ l[Len(l)] = "-")
    \/ \E i \in 1..(Len(l) - 1) : l[i] = "-" /\ l[i + 1] = "-"

First(S) == CHOOSE i \in S : \A j \in S : i <= j

\* the one reason the precedence of C9 gives for a candidate
ExpectedReason(cand) ==
    LET labels == Split(cand, ".")
        lbad   == {i \in DOMAIN labels : LengthBad(labels[i])}
        hbad   == {i \in DOMAIN labels : HyphenBad(labels[i])}
    IN  IF lbad # {}
        THEN IF Len(labels[First(lbad)]) = 1
             THEN "single character label"
             ELSE "label exceeds 63 characters"
        ELSE IF hbad # {}
        THEN LET l == labels[First(hbad)]
             IN  IF l[1] = "-" THEN "hyphen at start of label"
                 ELSE IF l[Len(l)] = "-" THEN "hyphen at end of label"
                 ELSE "consecutive hyphens"
        ELSE None

\* the candidate reaches the validators: government-qualified, or under
\* "lt" without a subdomain
Validated(ext) ==
    \/ GovernmentQualified(ext)
    \/ (ext.suffix = LT /\ ext.subdomain = <<>>)

C10_FixedPoint ==
    pd_pc = "again" => again = Return(result.domain, None)

====
